---- MODULE Spec2Model ----
(***************************************************************************)
(* radium: target detection for atomic instruction widths.                 *)
(*                                                                         *)
(*   build.rs            the build script ("Target Probe"): reads TARGET,  *)
(*                       computes an Atomics record, prints one            *)
(*                       cargo:rustc-cfg=radium_missing_<w> line per       *)
(*                       missing width.                                    *)
(*   src/has_atomic.rs   the has_atomic! macro ("Capability Macro"): wraps *)
(*                       every item in #[cfg(not(any(...)))].              *)
(*                                                                         *)
(* Strings are sequences of one-character strings, so that                 *)
(* target.split('-').next() is computed and not assumed.                   *)
(***************************************************************************)
EXTENDS Naturals, Sequences, FiniteSets

\* Largest number of items handed to one has_atomic! invocation.
MaxItems == 2

----------------------------------------------------------------------------
(* String literals of build.rs *)

Sep == "-"

Lit_riscv32i == <<"r", "i", "s", "c", "v", "3", "2", "i">>

Lit_riscv32imc == <<"r", "i", "s", "c", "v", "3", "2", "i", "m", "c">>

Lit_riscv32imac == <<"r", "i", "s", "c", "v", "3", "2", "i", "m", "a", "c">>

----------------------------------------------------------------------------
(* struct Atomics *)

Widths == {"8", "16", "32", "64", "ptr"}

Field(w) ==
    CASE w = "8" -> "has_8"
      [] w = "16" -> "has_16"
      [] w = "32" -> "has_32"
      [] w = "64" -> "has_64"
      [] w = "ptr" -> "has_ptr"

ALL == [has_8 |-> TRUE, has_16 |-> TRUE, has_32 |-> TRUE, has_64 |-> TRUE,
        has_ptr |-> TRUE]

NONE == [has_8 |-> FALSE, has_16 |-> FALSE, has_32 |-> FALSE,
         has_64 |-> FALSE, has_ptr |-> FALSE]

----------------------------------------------------------------------------
(* str::split(sep).next() *)

\* The index of the first sep in s at or after position i; Len(s) + 1 if none.
RECURSIVE FindSep(_, _, _)
FindSep(s, sep, i) ==
    IF i > Len(s) THEN Len(s) + 1
    ELSE IF s[i] = sep THEN i
    ELSE FindSep(s, sep, i + 1)

\* s.split(sep), collected: the pieces between the separators.  There is
\* always at least one piece; the empty string splits into one empty piece.
RECURSIVE Split(_, _)
Split(s, sep) ==
    LET k == FindSep(s, sep, 1)
    IN  IF k > Len(s) THEN <<s>>
        ELSE <<SubSeq(s, 1, k - 1)>> \o Split(SubSeq(s, k + 1, Len(s)), sep)

\* Iterator::next() on the split: Some(first piece), or None.
SplitNext(s, sep) ==
    LET pieces == Split(s, sep)
    IN  IF Len(pieces) = 0 THEN [some |-> FALSE, val |-> <<>>]
        ELSE [some |-> TRUE, val |-> pieces[1]]

----------------------------------------------------------------------------
(* The two lookup passes of main *)

\* match &*target { _ => {} }
ExactMatch(a, t) == a

\* Faulty variant: the arms match a prefix of arch (starts_with) instead of
\* the whole of it.
ArchMatchByPrefix(a, ar) ==
    LET starts(p) == Len(ar) >= Len(p) /\ SubSeq(ar, 1, Len(p)) = p
    IN  IF starts(Lit_riscv32imac) THEN [a EXCEPT !.has_64 = FALSE]
        ELSE IF starts(Lit_riscv32i) THEN NONE
        ELSE a

\* Faulty variant: the first arm lists "riscv32i" alone.
ArchMatchImcUnlisted(a, ar) ==
    IF ar = Lit_riscv32i THEN NONE
    ELSE IF ar = Lit_riscv32imac THEN [a EXCEPT !.has_64 = FALSE]
    ELSE a

\* Faulty variant: "riscv32imac" sits in the first arm.
ArchMatchImacNone(a, ar) ==
    IF ar = Lit_riscv32i \/ ar = Lit_riscv32imc \/ ar = Lit_riscv32imac
    THEN NONE
    ELSE a

\* Variant with a "mips" arm that clears has_64.
ArchMatchWithMips(a, ar) ==
    IF ar = Lit_riscv32i \/ ar = Lit_riscv32imc THEN NONE
    ELSE IF ar = Lit_riscv32imac \/ ar = <<"m", "i", "p", "s">>
    THEN [a EXCEPT !.has_64 = FALSE]
    ELSE a

\* match arch { "riscv32i" | "riscv32imc" => ..., "riscv32imac" => ..., _ => {} }
ArchMatch(a, ar) ==
    IF ar = Lit_riscv32i \/ ar = Lit_riscv32imc THEN NONE
    ELSE IF ar = Lit_riscv32imac THEN [a EXCEPT !.has_64 = FALSE]
    ELSE a

----------------------------------------------------------------------------
(* Emission *)

\* The position of the if-statement of width w.
EmitPc(w) ==
    CASE w = "8" -> "emit_8"
      [] w = "16" -> "emit_16"
      [] w = "32" -> "emit_32"
      [] w = "64" -> "emit_64"
      [] w = "ptr" -> "emit_ptr"

\* The position after the if-statement of width w.
AfterEmitPc(w) ==
    CASE w = "8" -> "emit_16"
      [] w = "16" -> "emit_32"
      [] w = "32" -> "emit_64"
      [] w = "64" -> "emit_ptr"
      [] w = "ptr" -> "return"

\* Faulty variant: the lines of 64 and ptr are exchanged.
DirectiveLineSwapped(w) ==
    CASE w = "8" -> "cargo:rustc-cfg=radium_missing_8"
      [] w = "16" -> "cargo:rustc-cfg=radium_missing_16"
      [] w = "32" -> "cargo:rustc-cfg=radium_missing_32"
      [] w = "64" -> "cargo:rustc-cfg=radium_missing_ptr"
      [] w = "ptr" -> "cargo:rustc-cfg=radium_missing_64"

\* The line println! writes for width w.
DirectiveLine(w) ==
    CASE w = "8" -> "cargo:rustc-cfg=radium_missing_8"
      [] w = "16" -> "cargo:rustc-cfg=radium_missing_16"
      [] w = "32" -> "cargo:rustc-cfg=radium_missing_32"
      [] w = "64" -> "cargo:rustc-cfg=radium_missing_64"
      [] w = "ptr" -> "cargo:rustc-cfg=radium_missing_ptr"

\* Faulty variant: the negation is missing.
ShouldEmitIfPresent(a, w) == a[Field(w)]

\* if !atomics.has_w
ShouldEmit(a, w) == ~a[Field(w)]

\* Faulty variant: the if-statement sets the flag it has reported.
RecordAfterEmitSetsFlag(a, w) == [a EXCEPT ![Field(w)] = TRUE]

\* The record after the if-statement of width w: println! assigns nothing.
RecordAfterEmit(a, w) == a

----------------------------------------------------------------------------
(* has_atomic! and the cfg evaluation of its expansion *)

\* The cfg flag that a cargo:rustc-cfg= line of the build script sets.
CfgOfLine(line) ==
    CASE line = "cargo:rustc-cfg=radium_missing_8" -> "radium_missing_8"
      [] line = "cargo:rustc-cfg=radium_missing_16" -> "radium_missing_16"
      [] line = "cargo:rustc-cfg=radium_missing_32" -> "radium_missing_32"
      [] line = "cargo:rustc-cfg=radium_missing_64" -> "radium_missing_64"
      [] line = "cargo:rustc-cfg=radium_missing_ptr" -> "radium_missing_ptr"

\* The cfg flags set by the lines written to the build script's stdout.
CfgFlags(out) == {CfgOfLine(out[i]) : i \in DOMAIN out}

\* Faulty variant: target_arch = "arm" and target_os = "android" are listed
\* side by side instead of under all(...).
AnyOfWrongArmAndroid(w, cfgs, ta, tos) ==
    CASE w = "8" -> "radium_missing_8" \in cfgs
      [] w = "16" -> "radium_missing_16" \in cfgs
      [] w = "32" -> "radium_missing_32" \in cfgs
      [] w = "64" -> \/ "radium_missing_64" \in cfgs
                     \/ ta = "arm"
                     \/ tos = "android"
                     \/ ta = "mips"
                     \/ ta = "mipsel"
                     \/ ta = "powerpc"
      [] w = "ptr" -> "radium_missing_ptr" \in cfgs

\* The any(...) list of the arm of selector w, under the cfg flags cfgs and
\* the attributes target_arch = ta, target_os = tos.
AnyOf(w, cfgs, ta, tos) ==
    CASE w = "8" -> "radium_missing_8" \in cfgs
      [] w = "16" -> "radium_missing_16" \in cfgs
      [] w = "32" -> "radium_missing_32" \in cfgs
      [] w = "64" -> \/ "radium_missing_64" \in cfgs
                     \/ (ta = "arm" /\ tos = "android")
                     \/ ta = "mips"
                     \/ ta = "mipsel"
                     \/ ta = "powerpc"
      [] w = "ptr" -> "radium_missing_ptr" \in cfgs

\* The expansion of has_atomic!(w items...): every item under the guard of
\* arm w, in the order given.
Expand(w, items) == [i \in DOMAIN items |-> [guard |-> w, item |-> items[i]]]

\* What is left of an expansion once #[cfg(not(any(...)))] has been evaluated:
\* the items whose guard holds, in order.
CfgStrip(guarded, cfgs, ta, tos) ==
    LET Keep(g) == ~AnyOf(g.guard, cfgs, ta, tos)
        kept == SelectSeq(guarded, Keep)
    IN  [i \in DOMAIN kept |-> kept[i].item]

----------------------------------------------------------------------------
(* Inputs *)

\* Architecture components tried: the three listed ones, proper prefixes and
\* extensions of them, unlisted architectures, and the empty string.
Archs ==
    { <<>>,
      Lit_riscv32i, Lit_riscv32imc, Lit_riscv32imac,
      <<"r", "i", "s", "c", "v", "3", "2">>,
      <<"r", "i", "s", "c", "v", "3", "2", "i", "m">>,
      <<"r", "i", "s", "c", "v", "3", "2", "i", "m", "c", "x">>,
      <<"m", "i", "p", "s">>,
      <<"a", "r", "m">>,
      <<"x", "8", "6", "_", "6", "4">> }

\* What follows the architecture component: nothing (no separator at all), a
\* bare separator, or vendor/os/environment components.
Tails ==
    { <<>>,
      <<"-">>,
      <<"-", "u", "n", "k", "n", "o", "w", "n", "-", "n", "o", "n", "e",
        "-", "e", "l", "f">>,
      <<"-", "u", "n", "k", "n", "o", "w", "n", "-", "l", "i", "n", "u", "x",
        "-", "g", "n", "u">>,
      <<"-", "l", "i", "n", "u", "x", "-", "a", "n", "d", "r", "o", "i", "d",
        "e", "a", "b", "i">> }

Targets == {a \o t : a \in Archs, t \in Tails}

\* std::env::var("TARGET"): the value, or VarError.
EnvValues ==
    {[kind |-> "Ok", value |-> t] : t \in Targets}
        \cup {[kind |-> "NotPresent", value |-> <<>>],
              [kind |-> "NotUnicode", value |-> <<>>]}

\* The values of target_arch and target_os the compiler is run with.  A
\* target specification may pair any name with any architecture and os, so
\* they are not derived from the target string.
TargetArchs == {"riscv32", "mips", "mipsel", "powerpc", "arm", "x86_64"}

TargetOses == {"none", "android"}

ItemNames == {"fn_a", "fn_b"}

RECURSIVE SeqsUpTo(_, _)
SeqsUpTo(S, n) ==
    IF n = 0 THEN {<<>>}
    ELSE LET shorter == SeqsUpTo(S, n - 1)
         IN  shorter \cup {Append(q, x) : q \in shorter, x \in S}

ItemLists == SeqsUpTo(ItemNames, MaxItems)

----------------------------------------------------------------------------
(* State *)

VARIABLES
    env,          \* the TARGET variable of the build environment
    pc,           \* the position in main
    atomics,      \* let mut atomics
    target,       \* let target
    arch,         \* let arch
    stdout,       \* the lines main has printed
    result,       \* what main returned
    target_arch,  \* cfg(target_arch = ...)
    target_os,    \* cfg(target_os = ...)
    site          \* the last has_atomic! invocation evaluated

vars == <<env, pc, atomics, target, arch, stdout, result, target_arch,
          target_os, site>>

NoSite == [selector |-> "none", items |-> <<>>, kept |-> <<>>]

\* The state after `let mut atomics = Atomics::ALL;`.
Init ==
    /\ env \in EnvValues
    /\ pc = "read_target"
    /\ atomics = ALL
    /\ target = <<>>
    /\ arch = <<>>
    /\ stdout = <<>>
    /\ result = "Running"
    /\ target_arch \in TargetArchs
    /\ target_os \in TargetOses
    /\ site = NoSite

----------------------------------------------------------------------------
(* main *)

\* Faulty variant: a TARGET that cannot be read counts as the empty string
\* (unwrap_or_default instead of ?).
ReadTargetOrEmpty ==
    /\ pc = "read_target"
    /\ target' = env.value
    /\ pc' = "match_target"
    /\ UNCHANGED <<env, atomics, arch, stdout, result, target_arch,
                   target_os, site>>

\* let target = std::env::var("TARGET")?;
ReadTarget ==
    /\ pc = "read_target"
    /\ IF env.kind = "Ok"
       THEN /\ target' = env.value
            /\ pc' = "match_target"
            /\ result' = result
       ELSE /\ target' = target
            /\ pc' = "failed"
            /\ result' = "Err"
    /\ UNCHANGED <<env, atomics, arch, stdout, target_arch, target_os, site>>

\* match &*target { _ => {} }
MatchTarget ==
    /\ pc = "match_target"
    /\ atomics' = ExactMatch(atomics, target)
    /\ pc' = "split_arch"
    /\ UNCHANGED <<env, target, arch, stdout, result, target_arch,
                   target_os, site>>

\* let arch = target.split('-').next().ok_or("Invalid target triple")?;
SplitArch ==
    /\ pc = "split_arch"
    /\ LET first == SplitNext(target, Sep)
       IN  IF first.some
           THEN /\ arch' = first.val
                /\ pc' = "match_arch"
                /\ result' = result
           ELSE /\ arch' = arch
                /\ pc' = "failed"
                /\ result' = "Err"
    /\ UNCHANGED <<env, atomics, target, stdout, target_arch, target_os,
                   site>>

\* match arch { ... }
MatchArch ==
    /\ pc = "match_arch"
    /\ atomics' = ArchMatch(atomics, arch)
    /\ pc' = "emit_8"
    /\ UNCHANGED <<env, target, arch, stdout, result, target_arch,
                   target_os, site>>

\* if !atomics.has_w { println!("cargo:rustc-cfg=radium_missing_w"); }
Emit(w) ==
    /\ pc = EmitPc(w)
    /\ stdout' = IF ShouldEmit(atomics, w)
                 THEN Append(stdout, DirectiveLine(w))
                 ELSE stdout
    /\ atomics' = RecordAfterEmit(atomics, w)
    /\ pc' = AfterEmitPc(w)
    /\ UNCHANGED <<env, target, arch, result, target_arch, target_os, site>>

\* Ok(())
Return ==
    /\ pc = "return"
    /\ pc' = "done"
    /\ result' = "Ok"
    /\ UNCHANGED <<env, atomics, target, arch, stdout, target_arch,
                   target_os, site>>

----------------------------------------------------------------------------
(* has_atomic! at one invocation site *)

\* has_atomic!(w items...) compiled under the cfg flags of stdout and the
\* attributes target_arch, target_os.
HasAtomic(w, items) ==
    /\ site' = [selector |-> w,
                items |-> items,
                kept |-> CfgStrip(Expand(w, items), CfgFlags(stdout),
                                  target_arch, target_os)]
    /\ UNCHANGED <<env, pc, atomics, target, arch, stdout, result,
                   target_arch, target_os>>

\* The crate is compiled once its build script has returned Ok; a build
\* script that returns Err aborts the build.
Compile ==
    /\ pc = "done"
    /\ \E w \in Widths, items \in ItemLists : HasAtomic(w, items)

----------------------------------------------------------------------------
(* Specifications *)

Next ==
    \/ ReadTarget
    \/ MatchTarget
    \/ SplitArch
    \/ MatchArch
    \/ \E w \in Widths : Emit(w)
    \/ Return
    \/ Compile

Spec == Init /\ [][Next]_vars

\* The lines of the widths in S, in the order main prints them.
LinesOf(S) ==
    LET all == <<"8", "16", "32", "64", "ptr">>
        In(w) == w \in S
        sel == SelectSeq(all, In)
    IN  [i \in DOMAIN sel |-> DirectiveLine(sel[i])]

\* The macro alone, under every set of radium_missing_* flags and every pair
\* of attributes.
InitMacro ==
    /\ env = [kind |-> "Ok", value |-> <<>>]
    /\ pc = "done"
    /\ atomics = ALL
    /\ target = <<>>
    /\ arch = <<>>
    /\ stdout \in {LinesOf(S) : S \in SUBSET Widths}
    /\ result = "Ok"
    /\ target_arch \in TargetArchs
    /\ target_os \in TargetOses
    /\ site = NoSite

NextMacro == \E w \in Widths, items \in ItemLists : HasAtomic(w, items)

SpecMacro == InitMacro /\ [][NextMacro]_vars

----------------------------------------------------------------------------
(* The lookup tables, as sets of keys *)

\* The strings the match on the full target lists: none.
ExactTable == {}

\* The strings the match on arch lists.
ArchTable == {Lit_riscv32i, Lit_riscv32imc, Lit_riscv32imac}

----------------------------------------------------------------------------
(* Vocabulary of the properties *)

\* The text of t before its first '-': all of t when it holds none.
TextBeforeFirstSep(t) ==
    LET n == CHOOSE k \in 0..Len(t) :
                 /\ \A i \in 1..k : t[i] # "-"
                 /\ k = Len(t) \/ t[k + 1] = "-"
    IN  SubSeq(t, 1, n)

HasNoSep(t) == \A i \in DOMAIN t : t[i] # "-"

\* The directive `radium_missing_w`, as the line that sets it.
MissingLine(w) ==
    CASE w = "8" -> "cargo:rustc-cfg=radium_missing_8"
      [] w = "16" -> "cargo:rustc-cfg=radium_missing_16"
      [] w = "32" -> "cargo:rustc-cfg=radium_missing_32"
      [] w = "64" -> "cargo:rustc-cfg=radium_missing_64"
      [] w = "ptr" -> "cargo:rustc-cfg=radium_missing_ptr"

\* The directives emitted so far.
Directives == {stdout[i] : i \in DOMAIN stdout}

\* Exactly the directives of the widths in S were emitted, each once.
EmittedExactly(S) ==
    /\ Directives = {MissingLine(w) : w \in S}
    /\ Len(stdout) = Cardinality(S)

\* The flags of the record that are false.
FalseFlags == {w \in Widths : ~atomics[Field(w)]}

ProbeSucceeded == pc = "done" /\ result = "Ok"

TargetIs(t) == env.kind = "Ok" /\ env.value = t

ArchComponentIs(a) == env.kind = "Ok" /\ TextBeforeFirstSep(env.value) = a

SiteEvaluated == site.selector \in Widths

Lit_mips_unknown_linux_gnu ==
    <<"m", "i", "p", "s", "-", "u", "n", "k", "n", "o", "w", "n", "-",
      "l", "i", "n", "u", "x", "-", "g", "n", "u">>

----------------------------------------------------------------------------
(* Properties *)

\* C1: a target whose full string is not in the exact-match table and whose
\* text before the first '-' is not in the architecture table ends with all
\* five flags true, and no directive is ever emitted for it.
C1_UnlistedTargetIsAll ==
    (/\ env.kind = "Ok"
     /\ env.value \notin ExactTable
     /\ TextBeforeFirstSep(env.value) \notin ArchTable)
    => /\ stdout = <<>>
       /\ ProbeSucceeded => FalseFlags = {}

C1_Witness ==
    /\ ProbeSucceeded
    /\ ArchComponentIs(<<"r", "i", "s", "c", "v", "3", "2", "i", "m">>)
    /\ Len(env.value) > 9

\* C2: with architecture component riscv32imc, whatever follows it, the
\* final record has all five flags false, exactly the five missing
\* directives are emitted, and has_atomic! keeps no item for any selector.
C2_Riscv32imcHasNone ==
    ArchComponentIs(Lit_riscv32imc)
    => /\ ProbeSucceeded => (FalseFlags = Widths /\ EmittedExactly(Widths))
       /\ SiteEvaluated => site.kept = <<>>

C2_Witness ==
    /\ ArchComponentIs(Lit_riscv32imc)
    /\ Len(env.value) > Len(Lit_riscv32imc)
    /\ ProbeSucceeded
    /\ site.selector = "8"
    /\ Len(site.items) > 0

\* C3: with architecture component riscv32imac, whatever follows it, the
\* final record has only the 64-bit flag false, exactly radium_missing_64 is
\* emitted, and has_atomic! keeps no item of selector 64 and every item, in
\* order, of selectors 8, 16, 32 and ptr.
C3_Riscv32imacLacks64 ==
    ArchComponentIs(Lit_riscv32imac)
    => /\ ProbeSucceeded => (FalseFlags = {"64"} /\ EmittedExactly({"64"}))
       /\ site.selector = "64" => site.kept = <<>>
       /\ site.selector \in {"8", "16", "32", "ptr"}
            => site.kept = site.items

C3_Witness ==
    /\ ArchComponentIs(Lit_riscv32imac)
    /\ Len(env.value) > Len(Lit_riscv32imac)
    /\ ProbeSucceeded
    /\ site.selector = "ptr"
    /\ Len(site.items) > 0
    /\ target_arch = "mips"

\* C4, as stated: for mips-unknown-linux-gnu the final record has only the
\* 64-bit flag false and exactly radium_missing_64 is emitted.
C4_MipsRecordLacks64 ==
    (TargetIs(Lit_mips_unknown_linux_gnu) /\ ProbeSucceeded)
    => (FalseFlags = {"64"} /\ EmittedExactly({"64"}))

\* C4, amended: for mips-unknown-linux-gnu the final record has all five
\* flags true and no directive is emitted; the items of selector 64 are
\* dropped by has_atomic! itself when target_arch is "mips".
C4_MipsRecordIsAll ==
    TargetIs(Lit_mips_unknown_linux_gnu)
    => /\ stdout = <<>>
       /\ ProbeSucceeded => FalseFlags = {}
       /\ (site.selector = "64" /\ target_arch = "mips") => site.kept = <<>>

C4_Witness ==
    /\ TargetIs(Lit_mips_unknown_linux_gnu)
    /\ ProbeSucceeded
    /\ site.selector = "64"
    /\ target_arch = "mips"
    /\ Len(site.items) > 0

\* C5, as stated: a target that is present but empty or without any '-'
\* makes main return an error; no record goes on to emission and no
\* directive is emitted.
C5_MalformedTargetFails ==
    (env.kind = "Ok" /\ HasNoSep(env.value))
    => /\ result # "Ok"
       /\ stdout = <<>>
       /\ pc \in {"read_target", "match_target", "split_arch", "failed"}

\* C6: when TARGET cannot be read, main ends with an error before either
\* lookup pass and before any directive: the record is never touched, the
\* output stays empty and nothing is compiled.
C6_UnreadableTargetFails ==
    env.kind # "Ok"
    => /\ pc \in {"read_target", "failed"}
       /\ pc = "failed" => result = "Err"
       /\ result # "Ok"
       /\ stdout = <<>>
       /\ atomics = ALL
       /\ ~SiteEvaluated

C6_Witness == env.kind = "NotPresent" /\ pc = "failed" /\ result = "Err"

\* C7: in a successful run the directive of width w is emitted exactly when
\* flag w of the final record is false, nothing else is emitted, and no
\* emission step changes the record.
C7_DirectiveIffFlagFalse ==
    /\ [](ProbeSucceeded => EmittedExactly(FalseFlags))
    /\ [][(pc \in {EmitPc(w) : w \in Widths}) => (atomics' = atomics)]_vars

C7_Witness ==
    /\ ProbeSucceeded
    /\ FalseFlags = {"64"}
    /\ stdout = <<MissingLine("64")>>

\* The exclusion triggers of selector w, as the claim lists them.
Trigger(w) ==
    \/ MissingLine(w) \in Directives
    \/ /\ w = "64"
       /\ \/ (target_arch = "arm" /\ target_os = "android")
          \/ target_arch = "mips"
          \/ target_arch = "mipsel"
          \/ target_arch = "powerpc"

\* C8: under any set of directives and any attributes, has_atomic! with
\* selector w keeps no item when a trigger of width w is true and keeps all
\* of them, in order, otherwise; the triggers of the other widths play no
\* part.
C8_MacroDropsIffTriggered ==
    SiteEvaluated
    => site.kept = IF Trigger(site.selector) THEN <<>> ELSE site.items

C8_Witness ==
    /\ site.selector = "64"
    /\ target_arch = "arm"
    /\ target_os = "none"
    /\ Directives = {MissingLine("8"), MissingLine("ptr")}
    /\ Len(site.items) = 2
    /\ site.items[1] # site.items[2]
    /\ site.kept = site.items

\* C9: no step of main turns a flag of the record from false to true.
C9_NoUpgrade ==
    [][\A w \in Widths : atomics'[Field(w)] => atomics[Field(w)]]_vars

C9_Witness ==
    /\ ProbeSucceeded
    /\ ~atomics.has_64
    /\ atomics.has_8
    /\ stdout # <<>>

\* C10: has_atomic! is evaluated only after main has returned Ok, and then,
\* for every width w whose flag in the final record is false, it keeps no
\* item of selector w, whatever target_arch and target_os are.
C10_ProbeMacroConsistent ==
    SiteEvaluated
    => /\ ProbeSucceeded
       /\ site.selector \in FalseFlags => site.kept = <<>>

C10_Witness ==
    /\ SiteEvaluated
    /\ site.selector = "ptr"
    /\ "ptr" \in FalseFlags
    /\ target_arch = "x86_64"
    /\ Len(site.items) > 0
    /\ site.kept = <<>>

====
